---- MODULE Spec2Model ----
(***************************************************************************)
(* The MLX driver process (packages/driver/src/mlx-ml/python): the stdio   *)
(* protocol loop of __main__.py, its request reader, the chat/completion   *)
(* handlers, the streaming generation loop and the capability probe of     *)
(* token_utils.py.                                                         *)
(*                                                                         *)
(* Strings are sequences of one-character strings.  An optional value      *)
(* (Python None or a value) is a sequence of length 0 or 1.                *)
(***************************************************************************)
EXTENDS Integers, Sequences, FiniteSets, TLC

\* ------------------------------------------------------------------ bounds
\* Lines the environment puts on standard input in one session.
MaxLines == 3
\* Chunks the inference runtime yields for one generation request.
MaxChunks == 3

\* ----------------------------------------------------------- characters
NUL == "NUL"
NL == "NL"

None == <<>>
Some(x) == <<x>>
IsNone(o) == o = <<>>
Val(o) == o[1]

RECURSIVE Concat(_)
Concat(ss) == IF ss = <<>> THEN <<>> ELSE Head(ss) \o Concat(Tail(ss))

\* Faulty variant of ReplaceNul: the text is written as it came.
ReplaceNulKeep(text) == text

\* str.replace('\0', ''): every NUL removed, the rest kept in order.
ReplaceNul(text) == SelectSeq(text, LAMBDA c : c # NUL)

\* True when sub occurs in text at (1-based) position i.
OccursAt(text, sub, i) ==
    /\ i >= 1
    /\ i + Len(sub) - 1 <= Len(text)
    /\ SubSeq(text, i, i + Len(sub) - 1) = sub

\* str.split(sep) for a non-empty sep: scans left to right, cutting at each
\* non-overlapping occurrence.
RECURSIVE SplitFrom(_, _, _, _)
SplitFrom(text, sep, start, i) ==
    IF i + Len(sep) - 1 > Len(text)
    THEN << SubSeq(text, start, Len(text)) >>
    ELSE IF OccursAt(text, sep, i)
         THEN << SubSeq(text, start, i - 1) >>
              \o SplitFrom(text, sep, i + Len(sep), i + Len(sep))
         ELSE SplitFrom(text, sep, start, i + 1)

Split(text, sep) == SplitFrom(text, sep, 1, 1)

\* sep.join(parts)
RECURSIVE Join(_, _)
Join(sep, parts) ==
    IF parts = <<>> THEN <<>>
    ELSE IF Len(parts) = 1 THEN parts[1]
    ELSE parts[1] \o sep \o Join(sep, Tail(parts))

\* ------------------------------------------------------------- tokenizer
\* The attributes of the loaded tokenizer the driver looks at.
\*   has_apply_chat_template : hasattr(tokenizer, 'apply_chat_template')
\*   chat_template           : "absent" (no attribute), "None", or "T" (a template)
\*   eos_token_id            : the directly exposed end-of-sequence id
\*   special_tokens_map      : declared special names (eos_token, eoi_token), optional
\*   added_tokens_encoder    : registered added tokens, name -> id
EosId == 2
EotId == 9
BosId == 1
UnkId == 0
\*   attrs                   : which of the attributes probed with hasattr exist
\*   eos_token .. pad_token  : declared standard token texts, optional
\*   bos/unk/pad_token_id    : their ids, optional
\*   eod_token_id            : the attribute of that name (None when missing)
\*   vocab                   : spellings convert_tokens_to_ids resolves; every
\*                             other spelling resolves to unk_token_id
AllAttrs == { "special_tokens_map", "added_tokens_encoder", "eos_token_id" }

DefaultTokenizer ==
    [ has_apply_chat_template |-> TRUE,
      chat_template |-> "T",
      attrs |-> AllAttrs,
      eos_token_id |-> EosId,
      special_tokens_map |-> [eos_token |-> Some("</s>"), eoi_token |-> None],
      added_tokens_encoder |-> [n \in {"</s>", "<end_of_turn>"} |->
                                   IF n = "</s>" THEN EosId ELSE EotId],
      eos_token |-> Some("</s>"),
      bos_token |-> Some("<s>"),
      unk_token |-> Some("<unk>"),
      pad_token |-> None,
      eod_token_id |-> None,
      bos_token_id |-> Some(BosId),
      unk_token_id |-> UnkId,
      pad_token_id |-> None,
      vocab |-> [n \in {"</s>", "<end_of_turn>"} |->
                    IF n = "</s>" THEN EosId ELSE EotId] ]

Tokenizers ==
    { [ DefaultTokenizer EXCEPT !.has_apply_chat_template = a,
                                !.chat_template = t ]
      : a \in BOOLEAN, t \in {"absent", "None", "T"} }

\* ------------------------------------------------------------ capabilities
\* get_capabilities: the method list.
BaseMethods == << "capabilities", "completion", "format_test" >>

GetMethods(tok) ==
    IF tok.has_apply_chat_template
    THEN Append(BaseMethods, "chat")
    ELSE BaseMethods

\* get_special_tokens: the standard entries.  The text of entry <name> is
\* the tokenizer's declared token, its id is the attribute <name>_token_id.
StandardNames == { "eod", "bos", "unk", "pad" }

StandardText(tok, name) ==
    CASE name = "eod" -> tok.eos_token
      [] name = "bos" -> tok.bos_token
      [] name = "unk" -> tok.unk_token
      [] name = "pad" -> tok.pad_token

StandardId(tok, name) ==
    CASE name = "eod" -> tok.eod_token_id
      [] name = "bos" -> tok.bos_token_id
      [] name = "unk" -> Some(tok.unk_token_id)
      [] name = "pad" -> tok.pad_token_id

StandardPresent(tok, name) ==
    /\ ~IsNone(StandardText(tok, name))
    /\ ~IsNone(StandardId(tok, name))

\* The catalogue of candidate spellings (two of the pairs and four of the
\* single tokens of the source's tables; the other rows are treated alike;
\* BACKTICK and BACKTICK3 stand for one and three backquote characters).
PairNames == { "system", "thinking" }

PairTokens(name) ==
    CASE name = "system"   -> << "<|system|>", "<|/system|>" >>
      [] name = "thinking" -> << "<|thinking|>", "</thinking>" >>

SingleNames == { "fim_prefix", "code_inline", "code_block_start", "code_block_end" }

SingleTokens(name) ==
    CASE name = "fim_prefix"       -> "<|fim_prefix|>"
      [] name = "code_inline"      -> "BACKTICK"
      [] name = "code_block_start" -> "BACKTICK3"
      [] name = "code_block_end"   -> "BACKTICK3"

\* tokenizer.convert_tokens_to_ids: a spelling outside the vocabulary
\* resolves to the unknown id.
ConvertTokensToIds(tok, text) ==
    IF text \in DOMAIN tok.vocab THEN tok.vocab[text] ELSE tok.unk_token_id

\* Faulty variant of PairPresent: one resolved half is enough.
PairPresentEither(tok, name) ==
    \/ ConvertTokensToIds(tok, PairTokens(name)[1]) # tok.unk_token_id
    \/ ConvertTokensToIds(tok, PairTokens(name)[2]) # tok.unk_token_id

PairPresent(tok, name) ==
    /\ ConvertTokensToIds(tok, PairTokens(name)[1]) # tok.unk_token_id
    /\ ConvertTokensToIds(tok, PairTokens(name)[2]) # tok.unk_token_id

SinglePresent(tok, name) ==
    ConvertTokensToIds(tok, SingleTokens(name)) # tok.unk_token_id

GetSpecialTokens(tok) ==
    LET std    == { n \in StandardNames : StandardPresent(tok, n) }
        pair   == { n \in PairNames : PairPresent(tok, n) }
        single == { n \in SingleNames : SinglePresent(tok, n) }
        entry(text) == [text |-> text, id |-> ConvertTokensToIds(tok, text)]
    IN [ n \in std \cup pair \cup single |->
           IF n \in std
           THEN [text |-> Val(StandardText(tok, n)), id |-> Val(StandardId(tok, n))]
           ELSE IF n \in pair
           THEN [start |-> entry(PairTokens(n)[1]), end |-> entry(PairTokens(n)[2])]
           ELSE entry(SingleTokens(n)) ]

GetCapabilities(tok) ==
    [ methods |-> GetMethods(tok),
      special_tokens |-> GetSpecialTokens(tok),
      features |-> [ apply_chat_template |-> tok.has_apply_chat_template ] ]

\* supports_chat_template(): the gate of the chat and format_test handlers.
SupportsChatTemplate(tok) ==
    /\ tok.has_apply_chat_template
    /\ tok.chat_template # "absent"
    /\ tok.chat_template # "None"

\* ------------------------------------------------------------ EOD detector
\* A generation chunk: text, finish_reason ("absent" when the attribute is
\* missing, "None", "stop", "length"), token (an id, or Absent when the
\* attribute is missing).
Absent == -1

\* Faulty variant of IsEodToken: only the finish reason is consulted.
IsEodTokenStopOnly(response, tok) == response.finish_reason = "stop"

\* Faulty variant of IsEodToken: the end-of-turn token is not looked up.
IsEodTokenNoTurnEnd(response, tok) ==
    IF response.finish_reason = "stop" THEN TRUE
    ELSE IF response.token = Absent THEN FALSE
    ELSE LET enc == tok.added_tokens_encoder
             map == tok.special_tokens_map
             fromMap(key) ==
                 IF ~IsNone(map[key]) /\ Val(map[key]) \in DOMAIN enc
                 THEN {enc[Val(map[key])]} ELSE {}
         IN response.token \in
              (IF {"special_tokens_map", "added_tokens_encoder"} \subseteq tok.attrs
               THEN fromMap("eos_token") \cup fromMap("eoi_token") ELSE {})
              \cup (IF "eos_token_id" \in tok.attrs THEN {tok.eos_token_id} ELSE {})

IsEodToken(response, tok) ==
    IF response.finish_reason = "stop" THEN TRUE
    ELSE IF response.token = Absent THEN FALSE
    ELSE LET enc == tok.added_tokens_encoder
             map == tok.special_tokens_map
             fromMap(key) ==
                 IF ~IsNone(map[key]) /\ Val(map[key]) \in DOMAIN enc
                 THEN {enc[Val(map[key])]} ELSE {}
             end_token_ids ==
                 (IF {"special_tokens_map", "added_tokens_encoder"} \subseteq tok.attrs
                  THEN fromMap("eos_token") \cup fromMap("eoi_token") ELSE {})
                 \cup (IF "added_tokens_encoder" \in tok.attrs
                          /\ "<end_of_turn>" \in DOMAIN enc
                       THEN {enc["<end_of_turn>"]} ELSE {})
                 \cup (IF "eos_token_id" \in tok.attrs
                       THEN {tok.eos_token_id} ELSE {})
         IN response.token \in end_token_ids

\* The chunks the runtime may yield in this model.
Chunks ==
    { [text |-> << "a" >>,      finish_reason |-> "None",   token |-> 7],
      [text |-> << "b", NUL >>, finish_reason |-> "None",   token |-> 8],
      [text |-> << "c" >>,      finish_reason |-> "length", token |-> EosId],
      [text |-> << "d" >>,      finish_reason |-> "stop",   token |-> 7] }


\* ------------------------------------------------------- prompt formatting
\* A message is [role, content]; role is None when the 'role' key is missing.
Whitespace == { " ", NL }

RECURSIVE LStrip(_)
LStrip(s) == IF s # <<>> /\ Head(s) \in Whitespace THEN LStrip(Tail(s)) ELSE s

RECURSIVE RStrip(_)
RStrip(s) ==
    IF s # <<>> /\ s[Len(s)] \in Whitespace
    THEN RStrip(SubSeq(s, 1, Len(s) - 1)) ELSE s

\* str.strip()
Strip(s) == RStrip(LStrip(s))

\* A formatting step either raises or returns a string.
Raised == [ok |-> FALSE, value |-> <<>>]
Returned(v) == [ok |-> TRUE, value |-> v]

\* Faulty variant of MergedBlock: the content is not trimmed.
MergedBlockUntrimmed(msg) ==
    LET label == IF Val(msg.role) = "system" THEN "SYSTEM" ELSE Val(msg.role)
    IN << << "<!-- begin of ", label, " -->" >>,
          msg.content,
          << "<!-- end of ", label, " -->" >> >>

\* The three lines generate_merged_prompt emits for one message.
MergedBlock(msg) ==
    LET label == IF Val(msg.role) = "system" THEN "SYSTEM" ELSE Val(msg.role)
    IN << << "<!-- begin of ", label, " -->" >>,
          Strip(msg.content),
          << "<!-- end of ", label, " -->" >> >>

\* generate_merged_prompt: msg['role'] raises KeyError for a message without role.
GenerateMergedPrompt(messages) ==
    IF \E i \in 1..Len(messages) : IsNone(messages[i].role)
    THEN Raised
    ELSE Returned(Join(<< NL >>,
             Concat([i \in 1..Len(messages) |-> MergedBlock(messages[i])])))

\* tokenizer.apply_chat_template(messages, add_generation_prompt, tokenize=False):
\* the runtime's renderer.  It rejects a message without a role; otherwise each
\* turn is rendered as <|role|>content<|end|> and the generation prompt opens
\* an assistant turn.
RenderTurn(msg) == << "<|", Val(msg.role), "|>" >> \o msg.content \o << "<|end|>", NL >>

ApplyChatTemplate(tok, messages, add_generation_prompt) ==
    IF \E i \in 1..Len(messages) : IsNone(messages[i].role)
    THEN Raised
    ELSE Returned(
           Concat([i \in 1..Len(messages) |-> RenderTurn(messages[i])])
           \o (IF add_generation_prompt THEN << "<|", "assistant", "|>" >> ELSE <<>>))

\* primer.join(prompt.split(primer)[0:-1]) + primer; str.split raises
\* ValueError on an empty separator.
SplicePrimer(rendered, primer) ==
    IF primer = <<>> THEN Raised
    ELSE LET parts == Split(rendered, primer)
         IN Returned(Join(primer, SubSeq(parts, 1, Len(parts) - 1)) \o primer)

\* The formatting both handlers perform on the template path.
TemplatePrompt(tok, messages, primer) ==
    LET msgs == IF IsNone(primer) THEN messages
                ELSE Append(messages, [role |-> Some("assistant"), content |-> Val(primer)])
        r == ApplyChatTemplate(tok, msgs, IsNone(primer))
    IN IF ~r.ok THEN Raised
       ELSE IF IsNone(primer) THEN r
       ELSE SplicePrimer(r.value, Val(primer))

\* The formatting both handlers perform on the fallback path.
FallbackPrompt(messages, primer) ==
    LET r == GenerateMergedPrompt(messages)
    IN IF ~r.ok THEN Raised
       ELSE IF IsNone(primer) THEN r
       ELSE Returned(r.value \o Val(primer))

\* Faulty variant of ChatPrompt: the template path is taken whatever the tokenizer.
ChatPromptTemplateOnly(tok, messages, primer) == TemplatePrompt(tok, messages, primer)

\* handle_chat up to the call of generate_text: the prompt it builds.
ChatPrompt(tok, messages, primer) ==
    IF ~SupportsChatTemplate(tok)
    THEN FallbackPrompt(messages, primer)
    ELSE TemplatePrompt(tok, messages, primer)

\* The result object of handle_format_test.
FormatResult(formatted_prompt, template_applied, model_specific_processing, error) ==
    [ formatted_prompt |-> formatted_prompt,
      template_applied |-> template_applied,
      model_specific_processing |-> model_specific_processing,
      error |-> error ]

\* Faulty variant of FormatTest: the primer is not read at all.
FormatTestIgnoringPrimer(tok, messages, options) ==
    LET r == ChatPrompt(tok, messages, None)
    IN IF r.ok
       THEN FormatResult(Some(r.value), SupportsChatTemplate(tok),
                         IF SupportsChatTemplate(tok) THEN Some(messages) ELSE None, None)
       ELSE FormatResult(None, FALSE,
                         IF SupportsChatTemplate(tok) THEN Some(messages) ELSE None,
                         Some("exception"))

\* handle_format_test(messages, options): the primer is options.get('primer').
\* On the template path the echoed list is the list the primer turn was
\* appended to; an exception leaves the fields set so far and fills error.
FormatTest(tok, messages, options) ==
    LET primer == options.primer
    IN IF SupportsChatTemplate(tok)
       THEN LET msgs == IF IsNone(primer) THEN messages
                        ELSE Append(messages,
                                    [role |-> Some("assistant"), content |-> Val(primer)])
                r == ApplyChatTemplate(tok, msgs, IsNone(primer))
                f == IF ~r.ok THEN Raised
                     ELSE IF IsNone(primer) THEN r
                     ELSE SplicePrimer(r.value, Val(primer))
            IN IF f.ok
               THEN FormatResult(Some(f.value), TRUE, Some(msgs), None)
               ELSE FormatResult(None, FALSE, Some(msgs), Some("exception"))
       ELSE LET r == GenerateMergedPrompt(messages)
            IN IF r.ok
               THEN FormatResult(Some(IF IsNone(primer) THEN r.value
                                      ELSE r.value \o Val(primer)),
                                 FALSE, None, None)
               ELSE FormatResult(None, FALSE, None, Some("exception"))

\* main()'s format_test branch: messages and options are read from the
\* request, a top-level primer is not.
DispatchFormatTest(tok, r) == FormatTest(tok, r.messages, r.options)

\* main()'s chat branch up to generate_text: messages and the top-level primer.
DispatchChat(tok, r) == ChatPrompt(tok, r.messages, r.primer)

\* ---------------------------------------------------------------- output
\* Faulty variant of Terminator: the NUL without the newline before it.
TerminatorBare == [src |-> "term", body |-> <<>>, end |-> << "NUL" >>]

\* One print() call: the text and its end= argument.  src says which print.
Terminator == [src |-> "term", body |-> << NL >>, end |-> << NUL >>]
TextWrite(src, text) == [src |-> src, body |-> text, end |-> <<>>]
JsonWrite(name) == [src |-> "json", body |-> << name >>, end |-> << NUL >>]

\* json.dumps(capabilities) as text: the method list in order and the
\* template flag (the special_tokens table is left out of the text).
JsonDumpsCapabilities(caps) ==
    << "{methods:" >> \o caps.methods
    \o << "apply_chat_template:",
          IF caps.features.apply_chat_template THEN "true" ELSE "false", "}" >>

\* Faulty variant of HandleCapabilities: the object dumped lost its last method.
HandleCapabilitiesTrimmed(caps) ==
    << [ src |-> "json",
         body |-> JsonDumpsCapabilities(
                     [caps EXCEPT !.methods = SubSeq(caps.methods, 1, Len(caps.methods) - 1)]),
         end |-> << NUL >> ] >>

\* handle_capabilities: json.dumps of the module-level capabilities, then NUL.
HandleCapabilities(caps) ==
    << [ src |-> "json", body |-> JsonDumpsCapabilities(caps), end |-> << NUL >> ] >>

\* json.dumps of a message list and of handle_format_test's result, as text.
JsonDumpsMessages(messages) ==
    << "[" >>
    \o Concat([i \in 1..Len(messages) |->
                 << "{role:", IF IsNone(messages[i].role) THEN "-" ELSE Val(messages[i].role),
                    "content:" >> \o messages[i].content \o << "}" >>])
    \o << "]" >>

JsonDumpsResult(result) ==
    << "{formatted_prompt:" >>
    \o (IF IsNone(result.formatted_prompt) THEN << "null" >>
        ELSE << "'" >> \o Val(result.formatted_prompt) \o << "'" >>)
    \o << "template_applied:", IF result.template_applied THEN "true" ELSE "false" >>
    \o << "model_specific_processing:" >>
    \o (IF IsNone(result.model_specific_processing) THEN << "null" >>
        ELSE JsonDumpsMessages(Val(result.model_specific_processing)))
    \o << "error:", IF IsNone(result.error) THEN "null" ELSE Val(result.error), "}" >>

\* Faulty variant of HandleFormatTest: an exception while formatting leaves the
\* handler and main's except clause answers.
HandleFormatTestPropagating(tok, messages, options) ==
    IF IsNone(FormatTest(tok, messages, options).error)
    THEN << [ src |-> "json", body |-> JsonDumpsResult(FormatTest(tok, messages, options)),
              end |-> << NUL >> ] >>
    ELSE << Terminator >>

\* handle_format_test: json.dumps(result), then NUL.
HandleFormatTest(tok, messages, options) ==
    << [ src |-> "json", body |-> JsonDumpsResult(FormatTest(tok, messages, options)),
         end |-> << NUL >> ] >>

\* The bytes a sequence of writes puts on standard output.
Bytes(ws) == Concat([i \in 1..Len(ws) |-> ws[i].body \o ws[i].end])

\* ------------------------------------------------------------ requests
\* A parsed JSON value.  type is "object", "null" or "number"; the fields of an
\* object are optional (req.get returns None for a missing key).
JsonValue(type, method, messages, primer, prompt) ==
    [type |-> type, method |-> method, messages |-> messages,
     primer |-> primer, prompt |-> prompt, options |-> None]

\* The object r with an options object holding the primer p (None: no such key).
WithOptions(r, p) == [r EXCEPT !.options = Some([primer |-> p])]

\* req.get('options', {})
GetOptions(r) == IF IsNone(r.options) THEN [primer |-> None] ELSE Val(r.options)

Obj(method, messages, primer, prompt) == JsonValue("object", method, messages, primer, prompt)
JsonNull == JsonValue("null", None, None, None, None)
JsonNumber == JsonValue("number", None, None, None, None)

UserMsg == [role |-> Some("user"), content |-> << " ", "h", NL >>]
NoRoleMsg == [role |-> None, content |-> << "h" >>]

Requests ==
    { Obj(Some("capabilities"), None, None, None),
      Obj(None, None, None, None),
      Obj(Some("bogus"), None, None, None),
      Obj(Some("format_test"), Some(<< UserMsg >>), None, None),
      Obj(Some("format_test"), None, None, None),
      WithOptions(Obj(Some("format_test"), Some(<< UserMsg >>), None, None), Some(<< "P" >>)),
      Obj(Some("format_test"), Some(<< NoRoleMsg >>), None, None),
      Obj(Some("chat"), Some(<< UserMsg >>), None, None),
      Obj(Some("chat"), Some(<< UserMsg >>), Some(<< "P" >>), None),
      Obj(Some("chat"), Some(<< UserMsg >>), Some(<< "Q", NUL >>), None),
      Obj(Some("chat"), Some(<< UserMsg >>), Some(<<>>), None),
      Obj(Some("chat"), Some(<<>>), None, None),
      Obj(Some("chat"), Some(<< NoRoleMsg >>), Some(<< "P" >>), None),
      Obj(Some("completion"), None, None, Some(<< "p" >>)),
      Obj(Some("completion"), None, None, Some(<<>>)) }

\* ------------------------------------------------------------- input
\* An input line.  frag says what text the line holds:
\*   "whole" a complete JSON value (value says which),
\*   "open"  the text {"method":      "close" the text "capabilities"}
\*   "bad"   text that is no JSON and no part of any, "blank" whitespace only.
Line(frag, value) == [frag |-> frag, value |-> value]

InputLines ==
    { Line("whole", v) : v \in Requests \cup { JsonNull, JsonNumber } }
    \cup { Line(f, JsonNull) : f \in { "open", "close", "bad", "blank" } }

\* json.loads(''.join(lines)): the text must be exactly one JSON value,
\* surrounded by optional whitespace.
JsonLoads(buf) ==
    LET nb == SelectSeq(buf, LAMBDA l : l.frag # "blank")
    IN IF Len(nb) = 1 /\ nb[1].frag = "whole"
       THEN Returned(nb[1].value)
       ELSE IF Len(nb) = 2 /\ nb[1].frag = "open" /\ nb[2].frag = "close"
       THEN Returned(Obj(Some("capabilities"), None, None, None))
       ELSE [ok |-> FALSE, value |-> JsonNull]


\* ------------------------------------------------------------------ state
VARIABLES
    tokenizer,      \* the tokenizer loaded at startup
    capabilities,   \* get_capabilities(tokenizer), computed once at startup
    pc,             \* "read": in read(); "dispatch": read() has returned;
                    \* "gen": in generate_text's loop; "exited"; "crashed"
    lines,          \* read()'s local list of the lines accumulated so far
    nlines,         \* lines taken from standard input so far
    eof,            \* standard input has reported end-of-input
    req,            \* what read() returned
    nread,          \* requests (values other than None) read() has returned
    stdout,         \* the print() calls made since the current call of read() took input
    answered,       \* for each NUL written so far, the request it was written for
    prompt,         \* the prompt handed to generate_text
    gen,            \* the chunks stream_generate has yielded to the current loop
    eos_detected,   \* generate_text's flag
    status,         \* how the current request ended: "none", "ok", "error"
    call            \* a library function called on its own: arguments and result

vars == << tokenizer, capabilities, pc, lines, nlines, eof, req, nread, stdout,
           answered, prompt, gen, eos_detected, status, call >>

\* No library function is called on its own while the driver loop runs.
NoCall == [op |-> "none", done |-> TRUE]

\* The driver process after startup (module level of __main__.py).
Startup ==
    /\ tokenizer \in Tokenizers
    /\ capabilities = GetCapabilities(tokenizer)
    /\ pc = "read"
    /\ lines = <<>>
    /\ nlines = 0
    /\ eof = FALSE
    /\ req = JsonNull
    /\ nread = 0
    /\ stdout = <<>>
    /\ answered = <<>>
    /\ prompt = <<>>
    /\ gen = <<>>
    /\ eos_detected = FALSE
    /\ status = "none"

Init ==
    /\ Startup
    /\ call = NoCall

\* print(): the writes ws appended to standard output for request k.
Emit(out, ws, k) ==
    out \o [i \in 1..Len(ws) |-> [req |-> k, src |-> ws[i].src,
                                   body |-> ws[i].body, end |-> ws[i].end]]

\* One entry per NUL that ends a print.
Nuls(ws, k) == [i \in 1..Len(SelectSeq(ws, LAMBDA w : w.end = << NUL >>)) |-> k]

\* ------------------------------------------------------------------ read()
\* Faulty variant of FreshLines: the list of lines outlives the call.
FreshLinesKeep(previous) == previous

\* read() starts with `lines = []`: nothing of the previous call is kept.
FreshLines(previous) == <<>>

\* read() starts with data = None; the previous pass's locals are dead and the
\* window on standard output restarts once read() takes input.
ReadStart ==
    /\ stdout' = <<>>
    /\ prompt' = <<>>
    /\ gen' = <<>>
    /\ eos_detected' = FALSE
    /\ status' = "none"

\* One iteration of read()'s loop on a line: the line is appended and the
\* accumulated text parsed; read() returns at the first parse that succeeds.
ReadLine ==
    /\ pc = "read"
    /\ ~eof
    /\ nlines < MaxLines
    /\ \E line \in InputLines :
         LET buf == Append(lines, line)
             r == JsonLoads(buf)
         IN /\ lines' = buf
            /\ nlines' = nlines + 1
            /\ req' = IF r.ok THEN r.value ELSE JsonNull
            /\ pc' = IF r.ok THEN "dispatch" ELSE "read"
    /\ ReadStart
    /\ UNCHANGED << call, tokenizer, capabilities, eof, nread, answered >>

\* The iteration of read()'s loop that meets end-of-input: nothing is appended,
\* the accumulated text is parsed once more and read() returns the result,
\* None when it does not parse.
ReadEof ==
    /\ pc = "read"
    /\ ~eof
    /\ eof' = TRUE
    /\ LET r == JsonLoads(lines)
       IN req' = IF r.ok THEN r.value ELSE JsonNull
    /\ pc' = "dispatch"
    /\ ReadStart
    /\ UNCHANGED << call, tokenizer, capabilities, lines, nlines, nread, answered >>

\* ------------------------------------------------------------------ main()
\* `not x` for an optional string or list: None or empty.
Falsy(o) == IsNone(o) \/ Val(o) = <<>>
FalsyName(o) == IsNone(o) \/ Val(o) = ""

\* What one pass of main's loop body does with the value read() returned, up
\* to the point where it either goes back to read() or enters generate_text's
\* loop: the writes it makes, where it goes next, the prompt it hands to
\* generate_text and how the request ended.
Outcome(writes, next, p, st) == [writes |-> writes, next |-> next, prompt |-> p, status |-> st]

\* print('\n', end='\0') on an error path, then `continue`.
ErrorResponse == Outcome(<< Terminator >>, "read", <<>>, "error")

\* Faulty variant of HandleChat: the primer is not echoed.
HandleChatSilent(tok, messages, primer) ==
    LET r == ChatPrompt(tok, messages, primer)
    IN IF ~r.ok THEN ErrorResponse
       ELSE [writes |-> <<>>, next |-> "gen", prompt |-> r.value, status |-> "none"]

\* handle_chat(messages, primer, options) up to generate_text's loop.
HandleChat(tok, messages, primer) ==
    LET r == ChatPrompt(tok, messages, primer)
    IN IF ~r.ok THEN ErrorResponse
       ELSE Outcome(IF IsNone(primer) THEN <<>> ELSE << TextWrite("primer", Val(primer)) >>,
                    "gen", r.value, "none")

\* Faulty variant of HandleCompletion: the handler returns before generation has run.
HandleCompletionDetached(p) == [writes |-> <<>>, next |-> "read", prompt |-> p, status |-> "ok"]

\* handle_completion(prompt, options) up to generate_text's loop.
HandleCompletion(p) == Outcome(<<>>, "gen", p, "none")

\* messages.append({'role': 'assistant', 'content': primer}) in handle_chat:
\* the list inside the request object gains the primer turn.
RequestAfter(tok, r) ==
    IF /\ ~FalsyName(r.method) /\ Val(r.method) = "chat"
       /\ ~Falsy(r.messages) /\ SupportsChatTemplate(tok) /\ ~IsNone(r.primer)
    THEN [r EXCEPT !.messages =
             Some(Append(Val(r.messages),
                         [role |-> Some("assistant"), content |-> Val(r.primer)]))]
    ELSE r

MainBody(tok, r) ==
    IF FalsyName(r.method) THEN ErrorResponse
    ELSE IF Val(r.method) = "capabilities"
    THEN Outcome(HandleCapabilities(capabilities), "read", <<>>, "ok")
    ELSE IF Val(r.method) = "format_test"
    THEN IF Falsy(r.messages) THEN ErrorResponse
         ELSE Outcome(HandleFormatTest(tok, Val(r.messages), GetOptions(r)), "read", <<>>, "ok")
    ELSE IF Val(r.method) = "chat"
    THEN IF Falsy(r.messages) THEN ErrorResponse
         ELSE HandleChat(tok, Val(r.messages), r.primer)
    ELSE IF Val(r.method) = "completion"
    THEN IF Falsy(r.prompt) THEN ErrorResponse
         ELSE HandleCompletion(Val(r.prompt))
    ELSE ErrorResponse

\* Faulty variant of MainExit: the loop writes a terminated line before it ends.
MainExitTerminated ==
    /\ pc' = "exited"
    /\ stdout' = Emit(stdout, << Terminator >>, nread)
    /\ answered' = Append(answered, nread)
    /\ UNCHANGED << nread, prompt, gen, eos_detected, status, lines, req >>

\* `if req is None: break`: the loop ends and nothing is written.
MainExit ==
    /\ pc' = "exited"
    /\ UNCHANGED << nread, stdout, answered, prompt, gen, eos_detected, status, lines, req >>

\* req.get('method') on a value that is no object raises AttributeError
\* outside the try block: the process ends with a traceback.
MainCrash ==
    /\ pc' = "crashed"
    /\ nread' = nread + 1
    /\ stdout' = <<>>
    /\ status' = "none"
    /\ UNCHANGED << answered, prompt, gen, eos_detected, lines, req >>

\* The loop body for an object, then (unless generation starts) the next
\* call of read(), which starts with an empty list of lines.
MainDispatch ==
    LET o == MainBody(tokenizer, req)
        k == nread + 1
    IN /\ nread' = k
       /\ stdout' = Emit(<<>>, o.writes, k)
       /\ answered' = answered \o Nuls(o.writes, k)
       /\ prompt' = o.prompt
       /\ gen' = <<>>
       /\ eos_detected' = FALSE
       /\ status' = o.status
       /\ pc' = o.next
       /\ lines' = IF o.next = "read" THEN FreshLines(lines) ELSE lines
       /\ req' = RequestAfter(tokenizer, req)

Main ==
    /\ pc = "dispatch"
    /\ IF req.type = "null" THEN MainExit
       ELSE IF req.type # "object" THEN MainCrash
       ELSE MainDispatch
    /\ UNCHANGED << call, tokenizer, capabilities, nlines, eof >>

\* ---------------------------------------------------------- generate_text
\* The writes generate_text makes for one chunk the runtime yields, given the
\* value of eos_detected before the chunk.
ChunkWrites(tok, response, detected) ==
    IF IsEodToken(response, tok)
    THEN << Terminator >>
    ELSE IF ~detected
    THEN << TextWrite("chunk", ReplaceNul(response.text)) >>
    ELSE <<>>

\* Faulty variant of AfterChunk: the loop goes on after an EOD chunk.
AfterChunkNoBreak(isEod) == "gen"

\* `break` after an EOD chunk: where the loop goes after a chunk.
AfterChunk(isEod) == IF isEod THEN "read" ELSE "gen"

\* Faulty variant of EndWrites: nothing is written after the loop.
EndWritesNone(detected) == <<>>

\* After the loop: `if not eos_detected: print('\n', end='\0')`.
EndWrites(detected) == IF detected THEN <<>> ELSE << Terminator >>

\* Faulty variant of ExceptWrites: the except clause only logs.
ExceptWritesSilent == <<>>

\* The except clause of main: print('\n', end='\0').
ExceptWrites == << Terminator >>

\* The loop takes the next chunk from stream_generate.
GenChunk ==
    /\ pc = "gen"
    /\ Len(gen) < MaxChunks
    /\ \E response \in Chunks :
         LET ws == ChunkWrites(tokenizer, response, eos_detected)
             isEod == IsEodToken(response, tokenizer)
         IN /\ gen' = Append(gen, response)
            /\ stdout' = Emit(stdout, ws, nread)
            /\ answered' = answered \o Nuls(ws, nread)
            /\ eos_detected' = (eos_detected \/ isEod)
            /\ pc' = AfterChunk(isEod)
            /\ status' = IF AfterChunk(isEod) = "read" THEN "ok" ELSE status
            /\ lines' = IF AfterChunk(isEod) = "read" THEN FreshLines(lines) ELSE lines
    /\ UNCHANGED << call, tokenizer, capabilities, nlines, eof, req, nread, prompt >>

\* stream_generate is exhausted: the loop ends without an EOD chunk.
GenExhausted ==
    /\ pc = "gen"
    /\ LET ws == EndWrites(eos_detected)
       IN /\ stdout' = Emit(stdout, ws, nread)
          /\ answered' = answered \o Nuls(ws, nread)
    /\ pc' = "read"
    /\ status' = "ok"
    /\ lines' = FreshLines(lines)
    /\ UNCHANGED << call, tokenizer, capabilities, nlines, eof, req, nread, prompt,
                    gen, eos_detected >>

\* stream_generate raises instead of yielding: the exception leaves
\* generate_text and the handler and is caught by main's except clause.
GenRaise ==
    /\ pc = "gen"
    /\ stdout' = Emit(stdout, ExceptWrites, nread)
    /\ answered' = answered \o Nuls(ExceptWrites, nread)
    /\ pc' = "read"
    /\ status' = "error"
    /\ lines' = FreshLines(lines)
    /\ UNCHANGED << call, tokenizer, capabilities, nlines, eof, req, nread, prompt,
                    gen, eos_detected >>

Next ==
    \/ ReadLine
    \/ ReadEof
    \/ Main
    \/ GenChunk
    \/ GenExhausted
    \/ GenRaise

Spec == Init /\ [][Next]_vars

\* One pass of the for loop of generate_text: the runtime yields a chunk, is
\* exhausted, or raises.
GenStep == GenChunk \/ GenExhausted \/ GenRaise

\* The loop of generate_text is sequential code over a finite sequence of
\* chunks: while generation is under way, its next pass is eventually taken.
SpecFair == Spec /\ WF_vars(GenStep)


\* ------------------------------------------------------ generation options
\* An options dict is a function from its keys to their values.
MaxTokensDefault == 1000
DefaultOptions == [k \in { "max_tokens" } |-> MaxTokensDefault]

\* {**a, **b}: the keys of both, b's value where both have the key.
MergeOptions(a, b) ==
    [k \in DOMAIN a \cup DOMAIN b |-> IF k \in DOMAIN b THEN b[k] ELSE a[k]]

\* Faulty variant of FinalOptions: the defaults are merged over the caller's options.
FinalOptionsDefaultsWin(options) == MergeOptions(options, DefaultOptions)

\* generate_text: final_options = {**default_options, **options}, the keyword
\* arguments of stream_generate.
FinalOptions(options) == MergeOptions(DefaultOptions, options)

\* ------------------------------------------------------ constraint probing
\* _get_test_patterns: the names of the probe patterns, in catalogue order.
Patterns ==
    << "basic", "with-system", "multi-system", "consecutive-user",
       "assistant-last", "alternating", "empty-message", "system-middle" >>

\* test_results[name] = {'success': True} or {'error': ...}, in the order the
\* entries were made.
TestResult(name, raised) == [name |-> name, error |-> raised]

\* `r = test_results.get(name)` followed by `r and 'error' in r`.
Errored(test_results, name) ==
    \E i \in 1..Len(test_results) : test_results[i] = TestResult(name, TRUE)

\* The restrictions dict; a key that was not set is None.
Restrictions(single, max, alternating, user_last, allow_empty) ==
    [ single_system_at_start |-> single,
      max_system_messages |-> max,
      alternating_turns |-> alternating,
      requires_user_last |-> user_last,
      allow_empty_messages |-> allow_empty ]

NoRestrictions == Restrictions(None, None, None, None, None)

\* Faulty variant of InferRestrictions: the multi-system rule is applied even
\* when the with-system rule has fired.
InferRestrictionsOverride(test_results) ==
    LET r == Restrictions(
               IF Errored(test_results, "multi-system") THEN Some(TRUE) ELSE None,
               IF Errored(test_results, "multi-system") THEN Some(1)
               ELSE IF Errored(test_results, "with-system") THEN Some(0) ELSE None,
               IF Errored(test_results, "consecutive-user") THEN Some(TRUE) ELSE None,
               IF Errored(test_results, "assistant-last") THEN Some(TRUE) ELSE None,
               IF Errored(test_results, "empty-message") THEN Some(FALSE) ELSE None)
    IN IF r = NoRestrictions THEN None ELSE Some(r)

\* _infer_restrictions_from_results; an empty dict is returned as None.
InferRestrictions(test_results) ==
    LET with_system == Errored(test_results, "with-system")
        multi_system == Errored(test_results, "multi-system")
        r == Restrictions(
               IF with_system THEN None ELSE IF multi_system THEN Some(TRUE) ELSE None,
               IF with_system THEN Some(0) ELSE IF multi_system THEN Some(1) ELSE None,
               IF Errored(test_results, "consecutive-user") THEN Some(TRUE) ELSE None,
               IF Errored(test_results, "assistant-last") THEN Some(TRUE) ELSE None,
               IF Errored(test_results, "empty-message") THEN Some(FALSE) ELSE None)
    IN IF r = NoRestrictions THEN None ELSE Some(r)

\* Faulty variant of ProbeNext: an exception ends the loop over the patterns.
ProbeNextAbort(i, raised) == IF raised THEN Len(Patterns) + 1 ELSE i + 1

\* The for loop of detect_chat_restrictions: whether or not pattern i raised,
\* the loop goes on with the next pattern.
ProbeNext(i, raised) == i + 1

\* ------------------------------------------------------ chat template info
\* get_chat_template_info: the roles probed, in order.
TestRoles == << "system", "user", "assistant", "tool", "function" >>

\* Faulty variant of RoleProbeNext: an exception ends the loop over the roles.
RoleProbeNextAbort(i, raised) == IF raised THEN Len(TestRoles) + 1 ELSE i + 1

\* The for loop over test_roles: `except: continue`.
RoleProbeNext(i, raised) == i + 1

\* The conversation of the preview: one turn for each of system, user and
\* assistant that is among the supported roles.
SampleTurn(role) ==
    [ role |-> Some(role),
      content |-> CASE role = "system" -> << "You are a helpful assistant." >>
                    [] role = "user" -> << "Hello!" >>
                    [] role = "assistant" -> << "Hi there!" >> ]

SampleMessages(supported_roles) ==
    LET roles == SelectSeq(SubSeq(TestRoles, 1, 3),
                           LAMBDA r : \E k \in 1..Len(supported_roles) : supported_roles[k] = r)
    IN [k \in 1..Len(roles) |-> SampleTurn(roles[k])]

\* Whether get_chat_template_info renders a preview at all.
PreviewAttempted(supported_roles) == supported_roles # <<>>

\* The preview: the render, or the text of the exception it raised.
Preview(tok, supported_roles, raises) ==
    IF ~PreviewAttempted(supported_roles) THEN None
    ELSE IF raises THEN Some(<< "Preview error: ", "exception" >>)
    ELSE Some(ApplyChatTemplate(tok, SampleMessages(supported_roles), FALSE).value)

TemplateInfo(tok, supported_roles, preview) ==
    [ template_string |-> tok.chat_template,
      supported_roles |-> supported_roles,
      preview |-> preview,
      constraints |-> NoRestrictions ]

\* ------------------------------------------- functions called on their own
\* The probe, the formatters and the EOD detector are functions of their
\* arguments.  Under SpecCalls one of them is called once on arguments drawn
\* from the sets below; the driver loop stays where startup left it.

\* Length of a rendered text and of a primer handed to the splice.
MaxRender == 4
MaxPrimer == 2

Alphabet == { "a", "b" }
Strings(n) == UNION { [1..k -> Alphabet] : k \in 0..n }

SystemMsg == [role |-> Some("system"), content |-> << "s" >>]
EchoMsg == [role |-> Some("user"), content |-> << "P", "x" >>]
SpacedMsg == [role |-> Some("system"), content |-> << " ", "B", " ", "n", ".", NL >>]
BlankMsg == [role |-> Some("tool"), content |-> << " ", NL >>]
FormatMessages ==
    { << UserMsg >>, << SystemMsg, UserMsg >>, << NoRoleMsg >>, << EchoMsg >>,
      << SpacedMsg, UserMsg >>, << UserMsg, BlankMsg, SystemMsg >> }
FormatPrimers == { None, Some(<< "P" >>), Some(<<>>) }

\* A chat request and a format_test request with the same messages; each has
\* a top-level primer (the same) and the format_test request has options.
FormatCalls ==
    { [ op |-> "format", done |-> FALSE, out |-> None, tok |-> t,
        chat |-> [messages |-> m, primer |-> p],
        format_test |-> [messages |-> m, primer |-> p, options |-> [primer |-> q]] ]
      : t \in Tokenizers, m \in FormatMessages, p \in FormatPrimers, q \in FormatPrimers }

\* Tokenizers for get_special_tokens: which standard tokens are declared and
\* which candidate spellings the vocabulary holds.
Spellings ==
    { "<|system|>", "<|/system|>", "<|thinking|>", "</thinking>",
      "<|fim_prefix|>", "BACKTICK", "BACKTICK3" }

VocabId(n) ==
    CASE n = "<|system|>"     -> 10
      [] n = "<|/system|>"    -> 11
      [] n = "<|thinking|>"   -> 12
      [] n = "</thinking>"    -> 13
      [] n = "<|fim_prefix|>" -> 14
      [] n = "BACKTICK"       -> 15
      [] n = "BACKTICK3"      -> 16

SpecialTokenizers ==
    { [ DefaultTokenizer EXCEPT !.eos_token = e, !.eod_token_id = d,
                                !.bos_token_id = b,
                                !.vocab = [n \in v |-> VocabId(n)] ]
      : e \in { None, Some("</s>") }, d \in { None, Some(EosId) },
        b \in { None, Some(BosId) }, v \in SUBSET Spellings }

SpecialTokenCalls ==
    { [ op |-> "get_special_tokens", done |-> FALSE, out |-> None, tok |-> t ]
      : t \in SpecialTokenizers }

\* Tokenizers for is_eod_token: which attributes exist, which end names are
\* declared and which names the added-token table registers.
EncEosId == 3
EncEoiId == 4
EndNames == { "</s>", "<eoi>", "<end_of_turn>" }
EncoderId(n) ==
    CASE n = "</s>" -> EncEosId [] n = "<eoi>" -> EncEoiId [] n = "<end_of_turn>" -> EotId

EodTokenizers ==
    { [ DefaultTokenizer EXCEPT
          !.attrs = a,
          !.special_tokens_map = [eos_token |-> e, eoi_token |-> i],
          !.added_tokens_encoder = [n \in d |-> EncoderId(n)] ]
      : a \in SUBSET AllAttrs, e \in { None, Some("</s>") },
        i \in { None, Some("<eoi>") }, d \in SUBSET EndNames }

\* Chunks for is_eod_token; token_ids is None when the attribute is missing.
OrdinaryId == 7
EodChunks ==
    { [ finish_reason |-> f, token |-> t, token_ids |-> ids ]
      : f \in { "absent", "None", "stop", "length" },
        t \in { Absent, EosId, EncEosId, EncEoiId, EotId, OrdinaryId },
        ids \in { None, Some(<< 1, EosId, 5 >>), Some(<< 1, 5, 6 >>) } }

EodCalls ==
    { [ op |-> "is_eod_token", done |-> FALSE, out |-> None, tok |-> t, response |-> c ]
      : t \in EodTokenizers, c \in EodChunks }

SpliceCalls ==
    { [ op |-> "splice", done |-> FALSE, out |-> None, rendered |-> r, primer |-> p ]
      : r \in Strings(MaxRender), p \in Strings(MaxPrimer) }

\* detect_chat_restrictions on a tokenizer with or without a renderer;
\* raising is the set of patterns the renderer rejects, i the loop's position.
DetectCalls ==
    { [ op |-> "detect_chat_restrictions", done |-> FALSE, out |-> None,
        tok |-> [DefaultTokenizer EXCEPT !.has_apply_chat_template = a],
        raising |-> r, i |-> 1, test_results |-> <<>> ]
      : a \in BOOLEAN, r \in SUBSET { Patterns[k] : k \in 1..Len(Patterns) } }

\* get_chat_template_info on a tokenizer with or without a renderer; rejected
\* is the set of roles whose one-message render raises, preview_raises says
\* whether the render of the preview raises, raising is the set of probe
\* patterns the renderer rejects, rendered lists the conversations handed to
\* the renderer (their roles), i is the loop's position.
InfoCalls ==
    { [ op |-> "get_chat_template_info", done |-> FALSE, out |-> None,
        tok |-> [DefaultTokenizer EXCEPT !.has_apply_chat_template = a],
        rejected |-> r, preview_raises |-> p, raising |-> x,
        i |-> 1, supported_roles |-> <<>>, rendered |-> <<>> ]
      : a \in BOOLEAN, p \in BOOLEAN,
        r \in SUBSET { TestRoles[k] : k \in 1..Len(TestRoles) },
        x \in { {}, { "multi-system" }, { "with-system", "multi-system", "empty-message" } } }

\* The options of a generation request: any of a recognized key, a key the
\* driver does not know and max_tokens, each with one of two values.
OptionKeys == { "max_tokens", "temperature", "x_custom" }
OptionValues == { 0, 7 }
OptionsCalls ==
    { [ op |-> "generate_text", done |-> FALSE, out |-> None, options |-> o ]
      : o \in UNION { [ks -> OptionValues] : ks \in SUBSET OptionKeys } }

PendingCalls ==
    FormatCalls \cup SpecialTokenCalls \cup EodCalls \cup SpliceCalls \cup DetectCalls
    \cup InfoCalls \cup OptionsCalls

driver == << tokenizer, capabilities, pc, lines, nlines, eof, req, nread, stdout,
             answered, prompt, gen, eos_detected, status >>

Done(out) == [call EXCEPT !.done = TRUE, !.out = out]

ApplyFormat ==
    /\ call.op = "format" /\ ~call.done
    /\ call' = Done([ prompt |-> DispatchChat(call.tok, call.chat),
                      report |-> DispatchFormatTest(call.tok, call.format_test) ])
    /\ UNCHANGED driver

ApplyGetSpecialTokens ==
    /\ call.op = "get_special_tokens" /\ ~call.done
    /\ call' = Done(GetSpecialTokens(call.tok))
    /\ UNCHANGED driver

ApplyIsEodToken ==
    /\ call.op = "is_eod_token" /\ ~call.done
    /\ call' = Done(IsEodToken(call.response, call.tok))
    /\ UNCHANGED driver

ApplySplicePrimer ==
    /\ call.op = "splice" /\ ~call.done
    /\ call' = Done(SplicePrimer(call.rendered, call.primer))
    /\ UNCHANGED driver

\* `if not hasattr(tokenizer, 'apply_chat_template'): return None`
DetectSkip ==
    /\ call.op = "detect_chat_restrictions" /\ ~call.done
    /\ ~call.tok.has_apply_chat_template
    /\ call' = Done(None)
    /\ UNCHANGED driver

\* One pass of the loop: pattern i is rendered and its outcome recorded.
DetectProbe ==
    /\ call.op = "detect_chat_restrictions" /\ ~call.done
    /\ call.tok.has_apply_chat_template
    /\ call.i <= Len(Patterns)
    /\ LET raised == Patterns[call.i] \in call.raising
       IN call' = [call EXCEPT
                     !.test_results = Append(@, TestResult(Patterns[call.i], raised)),
                     !.i = ProbeNext(@, raised)]
    /\ UNCHANGED driver

\* After the loop: the restrictions inferred from the recorded outcomes.
DetectInfer ==
    /\ call.op = "detect_chat_restrictions" /\ ~call.done
    /\ call.tok.has_apply_chat_template
    /\ call.i > Len(Patterns)
    /\ call' = Done(InferRestrictions(call.test_results))
    /\ UNCHANGED driver

\* `if not hasattr(tokenizer, 'apply_chat_template'): return None`
InfoSkip ==
    /\ call.op = "get_chat_template_info" /\ ~call.done
    /\ ~call.tok.has_apply_chat_template
    /\ call' = Done(None)
    /\ UNCHANGED driver

\* One pass of the loop over the roles: a one-message conversation is rendered
\* and the role appended when the render did not raise.
InfoProbeRole ==
    /\ call.op = "get_chat_template_info" /\ ~call.done
    /\ call.tok.has_apply_chat_template
    /\ call.i <= Len(TestRoles)
    /\ LET role == TestRoles[call.i]
           raised == role \in call.rejected
       IN call' = [call EXCEPT
                     !.rendered = Append(@, << role >>),
                     !.supported_roles = IF raised THEN @ ELSE Append(@, role),
                     !.i = RoleProbeNext(@, raised)]
    /\ UNCHANGED driver

\* After the loop: the preview, then the result is returned.
InfoPreview ==
    /\ call.op = "get_chat_template_info" /\ ~call.done
    /\ call.tok.has_apply_chat_template
    /\ call.i > Len(TestRoles)
    /\ LET sample == SampleMessages(call.supported_roles)
           info == TemplateInfo(call.tok, call.supported_roles,
                                Preview(call.tok, call.supported_roles, call.preview_raises))
       IN call' = [call EXCEPT
                     !.rendered = IF PreviewAttempted(call.supported_roles)
                                  THEN Append(@, [k \in 1..Len(sample) |-> Val(sample[k].role)])
                                  ELSE @,
                     !.done = TRUE,
                     !.out = Some(info)]
    /\ UNCHANGED driver

\* generate_text up to the call of stream_generate: the options it passes.
ApplyFinalOptions ==
    /\ call.op = "generate_text" /\ ~call.done
    /\ call' = Done(FinalOptions(call.options))
    /\ UNCHANGED driver

InitCalls ==
    /\ Startup
    /\ tokenizer = DefaultTokenizer
    /\ call \in PendingCalls

NextCalls ==
    \/ ApplyFormat
    \/ ApplyGetSpecialTokens
    \/ ApplyIsEodToken
    \/ ApplySplicePrimer
    \/ DetectSkip
    \/ DetectProbe
    \/ DetectInfer
    \/ InfoSkip
    \/ InfoProbeRole
    \/ InfoPreview
    \/ ApplyFinalOptions

SpecCalls == InitCalls /\ [][NextCalls]_vars


\* ------------------------------------------------------------ properties
Range(f) == { f[i] : i \in DOMAIN f }

\* The number of NULs written for request k.
NulsFor(k) == Cardinality({ i \in 1..Len(answered) : answered[i] = k })

\* The writes of the window that end with NUL, and those made for chunks.
NulWrites == SelectSeq(stdout, LAMBDA w : w.end = << NUL >>)
ChunkTextWrites == SelectSeq(stdout, LAMBDA w : w.src = "chunk")

\* A text with its NULs dropped, by recursion on the text.
RECURSIVE WithoutNul(_)
WithoutNul(t) ==
    IF t = <<>> THEN <<>>
    ELSE IF Head(t) = NUL THEN WithoutNul(Tail(t))
    ELSE << Head(t) >> \o WithoutNul(Tail(t))

IsObject(r) == r.type = "object"
MethodIs(r, m) == IsObject(r) /\ ~IsNone(r.method) /\ Val(r.method) = m
IsGenerationRequest(r) == MethodIs(r, "chat") \/ MethodIs(r, "completion")

\* handle_chat has echoed the primer of request r: the request is a chat
\* request with messages and a primer, and formatting its prompt did not raise.
PrimerEchoed(r) ==
    /\ MethodIs(r, "chat")
    /\ ~Falsy(r.messages)
    /\ ~IsNone(r.primer)
    /\ ChatPrompt(tokenizer, Val(r.messages), r.primer).ok

\* The text of that echo.
PrimerEcho(r) == IF PrimerEchoed(r) THEN Val(r.primer) ELSE <<>>

\* The texts of the chunks consumed so far, NULs dropped, concatenated.
StreamedText == Concat([i \in 1..Len(gen) |-> WithoutNul(gen[i].text)])

\* The last chunk consumed is an EOD chunk.
LastIsEod == gen # <<>> /\ IsEodToken(gen[Len(gen)], tokenizer)

\* C1: every request the loop reads gets exactly one NUL terminator before the
\* next request is read: never more than one at any time, and exactly one for
\* each request read so far whenever the loop is back in read(), has read the
\* next value, or has ended at end-of-input.
C1_OneTerminatorPerRequest ==
    /\ \A k \in 1..nread : NulsFor(k) <= 1
    /\ Len(NulWrites) <= 1
    /\ pc \in { "read", "dispatch", "exited" } => \A k \in 1..nread : NulsFor(k) = 1

\* C1 witness: a second request whose generation raised after a chunk had been
\* streamed is back in read() with its terminator written.
C1_Witness ==
    /\ pc = "read"
    /\ nread = 2
    /\ status = "error"
    /\ Len(gen) >= 1
    /\ answered = << 1, 2 >>

\* C2 as stated: a request that ends on an error path (unknown method, missing
\* field, exception) has the whole response newline + NUL.
C2_ErrorResponseIsBareLine ==
    status = "error" => (pc = "read" /\ Bytes(stdout) = << NL, NUL >>)

\* C2 amended: a request that ends on an error path has as its response what
\* had already been streamed (the echoed primer, the texts of the chunks
\* consumed before the exception) followed by newline + NUL; the response is
\* exactly newline + NUL when nothing had been streamed; the loop is back in
\* read() with an empty line buffer.
C2_ErrorResponseAfterStreamed ==
    status = "error" =>
        /\ pc = "read"
        /\ lines = <<>>
        /\ Bytes(stdout) = PrimerEcho(req) \o StreamedText \o << NL, NUL >>
        /\ (~IsGenerationRequest(req) => Bytes(stdout) = << NL, NUL >>)
        /\ Len(NulWrites) = 1

\* C2 witness: generation raised after the primer echo and one chunk.
C2_Witness ==
    /\ status = "error"
    /\ PrimerEchoed(req)
    /\ Val(req.primer) = << "P" >>
    /\ Len(gen) >= 1
    /\ Len(stdout) = Len(gen) + 2

\* C3: requests are handled one after another: terminators are written in
\* request order, request k+1 is read only when request k has its terminator,
\* and every write in the window belongs to the request read last.
C3_Sequential ==
    /\ \A i \in 1..Len(answered) : answered[i] = i
    /\ Len(answered) \in { nread - 1, nread }
    /\ pc \in { "read", "dispatch" } => Len(answered) = nread
    /\ \A i \in 1..Len(stdout) : stdout[i].req = nread

\* C3 witness: a third value has been read after two answered requests.
C3_Witness ==
    /\ pc = "dispatch"
    /\ IsObject(req)
    /\ nread = 2
    /\ answered = << 1, 2 >>

\* C4: when generation ends without an exception after N chunks, the chunk
\* texts written are those of the chunks before the EOD chunk, in order, then
\* one newline + NUL: N-1 text writes when the last chunk is EOD, N otherwise.
C4_StreamShape ==
    (pc = "read" /\ status = "ok" /\ IsGenerationRequest(req)) =>
        LET n == Len(gen)
            pre == IF LastIsEod THEN n - 1 ELSE n
            cw == ChunkTextWrites
            first == IF PrimerEchoed(req) THEN 2 ELSE 1
        IN /\ Len(cw) = pre
           /\ \A i \in 1..pre : cw[i].body = WithoutNul(gen[i].text)
           /\ Len(stdout) = (first - 1) + pre + 1
           /\ (PrimerEchoed(req) => stdout[1].src = "primer")
           /\ \A i \in first..(Len(stdout) - 1) : stdout[i].src = "chunk"
           /\ stdout[Len(stdout)].src = "term"
           /\ stdout[Len(stdout)].body \o stdout[Len(stdout)].end = << NL, NUL >>

\* C4 witness: a sequence of two chunks with no EOD chunk has ended.
C4_Witness ==
    /\ pc = "read"
    /\ status = "ok"
    /\ IsGenerationRequest(req)
    /\ Len(gen) >= 2
    /\ ~LastIsEod
    /\ Len(ChunkTextWrites) = Len(gen)

\* C5: once the first EOD chunk is seen the loop is left: no chunk is consumed
\* after an EOD chunk, the terminator is the last write, and the EOD chunk's
\* text is not written.
C5_StopAtFirstEod ==
    /\ \A i \in 1..(Len(gen) - 1) : ~IsEodToken(gen[i], tokenizer)
    /\ eos_detected =>
         /\ pc # "gen"
         /\ LastIsEod
         /\ stdout # <<>>
         /\ stdout[Len(stdout)].src = "term"
         /\ Len(ChunkTextWrites) = Len(gen) - 1

\* C5 witness: the second chunk was an EOD chunk, and the runtime could have
\* yielded more.
C5_Witness ==
    /\ eos_detected
    /\ Len(gen) = 2
    /\ Len(gen) < MaxChunks
    /\ Len(ChunkTextWrites) = 1

\* C6: every text write made for a chunk is the chunk's text without its NULs,
\* so no such write holds a NUL.
C6_ChunkTextHasNoNul ==
    /\ Len(ChunkTextWrites) <= Len(gen)
    /\ \A i \in 1..Len(ChunkTextWrites) :
         /\ ChunkTextWrites[i].body = WithoutNul(gen[i].text)
         /\ NUL \notin Range(ChunkTextWrites[i].body)
         /\ ChunkTextWrites[i].end = <<>>

\* C6 witness: a chunk whose text holds a NUL has been written.
C6_Witness ==
    \E i \in 1..Len(ChunkTextWrites) :
        /\ NUL \in Range(gen[i].text)
        /\ ChunkTextWrites[i].body # <<>>

\* A well-formed request line that was read after an unparseable line.
FollowsUnparseable(j) ==
    /\ lines[j].frag = "whole"
    /\ IsObject(lines[j].value)
    /\ \E i \in 1..(j - 1) : lines[i].frag = "bad"

\* C7 as stated: an unparseable request is answered with an empty terminated
\* line and dropped, so a well-formed request read after it is dispatched and
\* does not stay in the line buffer when the loop ends.
C7_MalformedRequestRecovered ==
    pc = "exited" => \A j \in 1..Len(lines) : ~FollowsUnparseable(j)

\* C8: a request spread over several lines is dispatched at the first line
\* after which the accumulated lines parse; nothing is written for the
\* incomplete prefixes; the lines of one request are gone when the next
\* read() starts.
C8_MultiLineRequest ==
    /\ (pc = "read" /\ lines # <<>>) =>
         /\ ~JsonLoads(lines).ok
         /\ stdout = <<>>
         /\ status = "none"
    /\ (pc = "dispatch" /\ ~eof) =>
         /\ JsonLoads(lines).ok
         /\ req = JsonLoads(lines).value
         /\ \A k \in 0..(Len(lines) - 1) : ~JsonLoads(SubSeq(lines, 1, k)).ok
         /\ stdout = <<>>
    /\ (pc = "read" /\ status # "none") => lines = <<>>

\* C8 witness: a two-line request has been read after an answered request.
C8_Witness ==
    /\ pc = "dispatch"
    /\ ~eof
    /\ Len(lines) = 2
    /\ lines[1].frag = "open"
    /\ nread = 1

\* C9: at end-of-input read() returns no request and the loop ends; nothing is
\* written for the lines left in the buffer.
C9_EofExitsSilently ==
    eof =>
        /\ req = JsonNull
        /\ pc \in { "dispatch", "exited" }
        /\ stdout = <<>>
        /\ Len(answered) = nread

\* C9 witness: the loop has ended at end-of-input with unparsed lines left,
\* after one answered request.
C9_Witness ==
    /\ pc = "exited"
    /\ eof
    /\ lines # <<>>
    /\ nread = 1

\* C10 as stated: chat is listed among the methods exactly when the chat
\* handler takes the template path.
C10_ChatListedIffTemplatePath ==
    ("chat" \in Range(capabilities.methods)) <=> SupportsChatTemplate(tokenizer)

\* ---------------------------------------------- properties of single calls
CallIs(op) == call.op = op /\ call.done

AllHaveRoles(messages) == \A i \in 1..Len(messages) : ~IsNone(messages[i].role)

\* The chat request and the format_test request of a format call name the
\* same primer, each where its handler reads it.
SamePrimerWhereRead == call.format_test.options.primer = call.chat.primer

\* C11: for a tokenizer without apply_chat_template, chat is not among the
\* advertised methods, yet a chat request with well-formed messages is served,
\* and the prompt it hands to generation is the formatted_prompt format_test
\* reports for the same messages, with template_applied false.
C11_FallbackChatMatchesFormatTest ==
    (CallIs("format") /\ ~call.tok.has_apply_chat_template /\ SamePrimerWhereRead)
    => /\ \A i \in 1..Len(GetCapabilities(call.tok).methods) :
             GetCapabilities(call.tok).methods[i] # "chat"
       /\ AllHaveRoles(call.chat.messages) => call.out.prompt.ok
       /\ call.out.prompt.ok
          => /\ call.out.report.error = None
             /\ call.out.report.formatted_prompt = Some(call.out.prompt.value)
             /\ call.out.report.template_applied = FALSE

C11_Witness ==
    /\ CallIs("format") /\ ~call.tok.has_apply_chat_template /\ SamePrimerWhereRead
    /\ call.chat.primer = Some(<< "P" >>)
    /\ Len(call.chat.messages) = 2
    /\ call.out.prompt.ok
    /\ call.out.report.formatted_prompt = Some(call.out.prompt.value)

\* What the two handlers report for the requests of a format call agrees.
FormatsAgree ==
    /\ call.out.prompt.ok <=> call.out.report.error = None
    /\ call.out.prompt.ok
       => call.out.report.formatted_prompt = Some(call.out.prompt.value)

\* C12 (as stated): format_test and chat take the primer from the same
\* top-level field, so two requests with the same messages and the same
\* top-level primer are formatted identically.
C12_SameTopLevelPrimer ==
    (CallIs("format") /\ IsNone(call.format_test.options.primer)) => FormatsAgree

\* C12 (amended): chat reads the top-level primer and format_test reads
\* options.primer; given the same messages and the same primer, each where
\* its handler reads it, both format identically on either path.
C12_SamePrimerWhereRead ==
    (CallIs("format") /\ SamePrimerWhereRead)
    => /\ FormatsAgree
       /\ call.out.prompt.ok
          => call.out.report.template_applied = SupportsChatTemplate(call.tok)

C12_Witness ==
    /\ CallIs("format") /\ SamePrimerWhereRead
    /\ SupportsChatTemplate(call.tok)
    /\ call.chat.primer = Some(<< "P" >>)
    /\ call.chat.messages = << EchoMsg >>
    /\ call.out.report.formatted_prompt = Some(call.out.prompt.value)

\* The id a standard entry is about, when the tokenizer declares the token.
DeclaredId(tok, name) ==
    CASE name = "eod" -> IF IsNone(tok.eos_token) THEN None ELSE Some(tok.eos_token_id)
      [] name = "bos" -> IF IsNone(tok.bos_token) THEN None ELSE tok.bos_token_id
      [] name = "unk" -> IF IsNone(tok.unk_token) THEN None ELSE Some(tok.unk_token_id)
      [] name = "pad" -> IF IsNone(tok.pad_token) THEN None ELSE tok.pad_token_id

Known(tok, text) == ConvertTokensToIds(tok, text) # tok.unk_token_id

PairAndSingleEntriesExact ==
    /\ \A n \in PairNames :
          n \in DOMAIN call.out
          <=> (Known(call.tok, PairTokens(n)[1]) /\ Known(call.tok, PairTokens(n)[2]))
    /\ \A n \in SingleNames :
          n \in DOMAIN call.out <=> Known(call.tok, SingleTokens(n))

\* C13 (as stated): an entry of special_tokens is present if and only if all
\* of its ids differ from the unknown id, for standard, paired and single
\* entries alike.
C13_EntryIffIdsDifferFromUnk ==
    CallIs("get_special_tokens")
    => /\ PairAndSingleEntriesExact
       /\ \A n \in StandardNames :
             n \in DOMAIN call.out
             <=> /\ ~IsNone(DeclaredId(call.tok, n))
                 /\ Val(DeclaredId(call.tok, n)) # call.tok.unk_token_id

\* C13 (amended): a paired entry is present if and only if both its spellings
\* resolve to ids other than the unknown id, a single entry if and only if
\* its spelling does; the bos, unk and pad entries are present if and only if
\* the tokenizer declares the token's text and id, whatever the id.
C13_PairAndSingleIffKnown ==
    CallIs("get_special_tokens")
    => /\ PairAndSingleEntriesExact
       /\ \A n \in { "bos", "unk", "pad" } :
             n \in DOMAIN call.out <=> ~IsNone(DeclaredId(call.tok, n))

C13_Witness ==
    /\ CallIs("get_special_tokens")
    /\ "system" \in DOMAIN call.out
    /\ "<|thinking|>" \in DOMAIN call.tok.vocab
    /\ "thinking" \notin DOMAIN call.out
    /\ "fim_prefix" \in DOMAIN call.out
    /\ "code_inline" \notin DOMAIN call.out

\* C14: a tokenizer that declares an end-of-sequence token, text and id, gets
\* an eod entry in special_tokens carrying that text and that id.
C14_EodEntryForDeclaredEos ==
    (CallIs("get_special_tokens") /\ ~IsNone(call.tok.eos_token)
       /\ "eos_token_id" \in call.tok.attrs)
    => /\ "eod" \in DOMAIN call.out
       /\ call.out["eod"] = [text |-> Val(call.tok.eos_token), id |-> call.tok.eos_token_id]

\* C16: no request leaves state behind that a later request observes.  The
\* capabilities computed at startup are never modified, every capabilities
\* response is the dump of what the tokenizer yields, and the value handed to
\* the dispatcher is the value parsed from the input, without the primer turn
\* an earlier chat request appended to its own message list.
C16_NoStateAcrossRequests ==
    /\ capabilities = GetCapabilities(tokenizer)
    /\ pc = "dispatch" => req \in Requests \cup { JsonNull, JsonNumber }
    /\ (pc = "read" /\ status = "ok" /\ MethodIs(req, "capabilities"))
       => Bytes(stdout) = JsonDumpsCapabilities(GetCapabilities(tokenizer)) \o << NUL >>

C16_Witness ==
    /\ nread = 2
    /\ pc = "read" /\ status = "ok" /\ MethodIs(req, "capabilities")
    /\ answered = << 1, 2 >>
    /\ Len(stdout) = 1

\* A chat request with a primer has gone through the template path: its own
\* message list now ends with the primer turn.
C16_RequestMutated ==
    /\ pc = "gen"
    /\ MethodIs(req, "chat")
    /\ Len(Val(req.messages)) = 2
    /\ Val(req.messages)[2].role = Some("assistant")

\* The ids that end a generation for a tokenizer: the added-token ids of the
\* declared eos and eoi names, the added-token id of <end_of_turn>, and the
\* directly exposed eos id.
DeclaredEndNames(tok) ==
    IF "special_tokens_map" \in tok.attrs
    THEN { Val(tok.special_tokens_map[k]) :
             k \in { j \in { "eos_token", "eoi_token" } : ~IsNone(tok.special_tokens_map[j]) } }
    ELSE {}

EndIds(tok) ==
    (IF "added_tokens_encoder" \in tok.attrs
     THEN { tok.added_tokens_encoder[n] :
              n \in (DeclaredEndNames(tok) \cup { "<end_of_turn>" })
                    \cap DOMAIN tok.added_tokens_encoder }
     ELSE {})
    \cup (IF "eos_token_id" \in tok.attrs THEN { tok.eos_token_id } ELSE {})

\* C17: is_eod_token is true for a chunk whose finish_reason is "stop",
\* whatever its other fields, and true for a chunk whose token is the
\* tokenizer's eos id, whether finish_reason is missing or another value.
C17_StopOrEosIdIsEod ==
    CallIs("is_eod_token")
    => /\ call.response.finish_reason = "stop" => call.out
       /\ ("eos_token_id" \in call.tok.attrs
             /\ call.response.token = call.tok.eos_token_id) => call.out

C17_Witness ==
    /\ CallIs("is_eod_token")
    /\ call.response.finish_reason = "length"
    /\ call.response.token = call.tok.eos_token_id
    /\ call.tok.attrs = { "eos_token_id" }
    /\ call.out

\* C18: for a chunk with no finish reason and no single token but with a
\* token_ids collection, is_eod_token is true exactly when the collection
\* holds an end id.
C18_TokenIdsScanned ==
    (CallIs("is_eod_token")
       /\ call.response.finish_reason \in { "absent", "None" }
       /\ call.response.token = Absent
       /\ ~IsNone(call.response.token_ids))
    => (call.out <=> \E i \in 1..Len(Val(call.response.token_ids)) :
                        Val(call.response.token_ids)[i] \in EndIds(call.tok))

\* C19: for a chunk with a single token and no "stop", is_eod_token is true
\* exactly when the token is one of the tokenizer's end ids; it is false for
\* a chunk that carries no evidence at all.
C19_TokenInEndIds ==
    (CallIs("is_eod_token") /\ call.response.finish_reason # "stop")
    => /\ call.response.token # Absent
          => (call.out <=> call.response.token \in EndIds(call.tok))
       /\ (call.response.token = Absent /\ IsNone(call.response.token_ids))
          => ~call.out

C19_Witness ==
    /\ CallIs("is_eod_token")
    /\ call.response.finish_reason = "None"
    /\ call.response.token = EotId
    /\ call.tok.attrs = AllAttrs
    /\ DOMAIN call.tok.added_tokens_encoder = { "<end_of_turn>" }
    /\ call.out

\* The positions at which primer occurs in rendered, and the last of them.
Occurrences(rendered, primer) ==
    { i \in 1..Len(rendered) : OccursAt(rendered, primer, i) }

LastOccurrence(rendered, primer) ==
    CHOOSE i \in Occurrences(rendered, primer) :
        \A j \in Occurrences(rendered, primer) : j <= i

\* C20: for a rendered text that contains the primer, the spliced prompt is
\* everything before the last occurrence of the primer, followed by the primer.
C20_CutAtLastOccurrence ==
    (CallIs("splice") /\ call.primer # <<>>
       /\ Occurrences(call.rendered, call.primer) # {})
    => /\ call.out.ok
       /\ call.out.value =
            SubSeq(call.rendered, 1, LastOccurrence(call.rendered, call.primer) - 1)
            \o call.primer

\* The content between its first and its last character that is no whitespace.
Trimmed(text) ==
    LET solid == { i \in 1..Len(text) : text[i] \notin Whitespace }
    IN IF solid = {} THEN <<>>
       ELSE SubSeq(text, CHOOSE i \in solid : \A j \in solid : i <= j,
                         CHOOSE i \in solid : \A j \in solid : j <= i)

\* The serialized turn of one message and of a message list.
ExpectedBlock(msg) ==
    LET label == IF msg.role = Some("system") THEN "SYSTEM" ELSE Val(msg.role)
    IN << "<!-- begin of ", label, " -->", NL >>
       \o Trimmed(msg.content)
       \o << NL, "<!-- end of ", label, " -->" >>

RECURSIVE ExpectedMerged(_)
ExpectedMerged(messages) ==
    IF messages = <<>> THEN <<>>
    ELSE IF Len(messages) = 1 THEN ExpectedBlock(messages[1])
    ELSE ExpectedBlock(messages[1]) \o << NL >> \o ExpectedMerged(Tail(messages))

OrEmpty(o) == IF IsNone(o) THEN <<>> ELSE Val(o)

\* C21: on the fallback path the prompt is one block per message in input
\* order: the begin marker, the trimmed content, the end marker, all joined by
\* single newlines without a trailing newline, with SYSTEM as the label of
\* role system and the raw role otherwise; a primer is appended verbatim.
C21_FallbackPromptShape ==
    (CallIs("format") /\ ~SupportsChatTemplate(call.tok)
       /\ AllHaveRoles(call.chat.messages))
    => /\ call.out.prompt =
            Returned(ExpectedMerged(call.chat.messages) \o OrEmpty(call.chat.primer))
       /\ call.out.report.formatted_prompt =
            Some(ExpectedMerged(call.format_test.messages)
                 \o OrEmpty(call.format_test.options.primer))

C21_Witness ==
    /\ CallIs("format") /\ ~SupportsChatTemplate(call.tok)
    /\ call.chat.messages = << UserMsg, BlankMsg, SystemMsg >>
    /\ call.chat.primer = Some(<< "P" >>)
    /\ call.out.prompt.ok
    /\ call.out.prompt.value =
         << "<!-- begin of ", "user", " -->", NL, "h", NL, "<!-- end of ", "user", " -->", NL,
            "<!-- begin of ", "tool", " -->", NL, NL, "<!-- end of ", "tool", " -->", NL,
            "<!-- begin of ", "SYSTEM", " -->", NL, "s", NL, "<!-- end of ", "SYSTEM", " -->",
            "P" >>

\* The value json.dumps wrote for the error key and whether the value of
\* formatted_prompt is null, read off the text of a format_test response.
ErrorField(body) == body[Len(body) - 1]
PromptFieldIsNull(body) == body[2] = "null"
HasKeys(body) ==
    /\ body[1] = "{formatted_prompt:"
    /\ \A k \in { "template_applied:", "model_specific_processing:", "error:" } :
          \E i \in 1..Len(body) : body[i] = k
    /\ body[Len(body)] = "}"

\* Formatting the messages of request r raises: a message has no role, or the
\* template path has to split on an empty primer.
FormattingRaises(r) ==
    \/ ~AllHaveRoles(Val(r.messages))
    \/ SupportsChatTemplate(tokenizer) /\ GetOptions(r).primer = Some(<<>>)

\* C22: a format_test request with non-empty messages never starts generation
\* and is answered by exactly one JSON object with the four keys, followed by
\* NUL.  When formatting raises, the exception does not reach the loop: error
\* holds its description and formatted_prompt is null; otherwise error is null.
C22_FormatTestAlwaysReports ==
    (MethodIs(req, "format_test") /\ ~Falsy(req.messages))
    => /\ pc \in { "dispatch", "read" }
       /\ pc = "read"
          => /\ status = "ok" /\ gen = <<>> /\ prompt = <<>>
             /\ Len(stdout) = 1
             /\ stdout[1].src = "json" /\ stdout[1].end = << NUL >>
             /\ HasKeys(stdout[1].body)
             /\ IF FormattingRaises(req)
                THEN ErrorField(stdout[1].body) # "null" /\ PromptFieldIsNull(stdout[1].body)
                ELSE ErrorField(stdout[1].body) = "null" /\ ~PromptFieldIsNull(stdout[1].body)

C22_Witness ==
    /\ MethodIs(req, "format_test") /\ pc = "read"
    /\ req.messages = Some(<< NoRoleMsg >>)
    /\ SupportsChatTemplate(tokenizer)
    /\ Len(stdout) = 1
    /\ ErrorField(stdout[1].body) = "exception"
    /\ nread = 2

\* C29: in the response to a chat request with a primer the primer is written
\* once, as the first write and so before any generated text, on the template
\* path and on the fallback path; the response to a format_test request holds
\* no primer write, only the JSON object.
C29_PrimerEchoedOnceAndFirst ==
    /\ (PrimerEchoed(req) /\ pc \in { "gen", "read" })
       => /\ stdout # <<>>
          /\ stdout[1] = [req |-> nread, src |-> "primer", body |-> Val(req.primer), end |-> <<>>]
          /\ \A i \in 2..Len(stdout) : stdout[i].src # "primer"
    /\ (MethodIs(req, "format_test") /\ pc = "read")
       => \A i \in 1..Len(stdout) : stdout[i].src \in { "json", "term" }

C29_Witness ==
    /\ PrimerEchoed(req) /\ pc = "read" /\ status = "ok"
    /\ ~SupportsChatTemplate(tokenizer)
    /\ Len(gen) >= 1
    /\ Len(ChunkTextWrites) >= 1
    /\ stdout[1].src = "primer"

\* A format_test request whose options hold a primer has been answered.
C29_FormatTestWithPrimer ==
    /\ MethodIs(req, "format_test") /\ pc = "read"
    /\ GetOptions(req).primer = Some(<< "P" >>)
    /\ Len(stdout) = 1

\* C23: format_test reports in template_applied whether the template path was
\* used and echoes in model_specific_processing the message list as the caller
\* sent it, on both paths, with or without a primer.
C23_EchoesMessagesAsSent ==
    (CallIs("format") /\ IsNone(call.out.report.error))
    => /\ call.out.report.template_applied = SupportsChatTemplate(call.tok)
       /\ call.out.report.model_specific_processing = Some(call.format_test.messages)

\* The restrictions a finished detection returned, None read as no key set.
Detected == IF IsNone(call.out) THEN NoRestrictions ELSE Val(call.out)
Raises(name) == name \in call.raising
DetectionDone ==
    CallIs("detect_chat_restrictions") /\ call.tok.has_apply_chat_template

\* C24: the restrictions follow from the probe outcomes by independent rules:
\* with-system raising gives max_system_messages 0 and no
\* single_system_at_start; otherwise multi-system raising gives
\* single_system_at_start true and max_system_messages 1; otherwise neither;
\* alternating_turns true, requires_user_last true and allow_empty_messages
\* false are set exactly when consecutive-user, assistant-last and
\* empty-message raise; no other outcome enters the result.
C24_InferenceRules ==
    DetectionDone
    => /\ Raises("with-system")
          => /\ Detected.max_system_messages = Some(0)
             /\ IsNone(Detected.single_system_at_start)
       /\ (~Raises("with-system") /\ Raises("multi-system"))
          => /\ Detected.max_system_messages = Some(1)
             /\ Detected.single_system_at_start = Some(TRUE)
       /\ (~Raises("with-system") /\ ~Raises("multi-system"))
          => /\ IsNone(Detected.max_system_messages)
             /\ IsNone(Detected.single_system_at_start)
       /\ Detected.alternating_turns
            = IF Raises("consecutive-user") THEN Some(TRUE) ELSE None
       /\ Detected.requires_user_last
            = IF Raises("assistant-last") THEN Some(TRUE) ELSE None
       /\ Detected.allow_empty_messages
            = IF Raises("empty-message") THEN Some(FALSE) ELSE None

C24_Witness ==
    /\ DetectionDone
    /\ call.raising = { "basic", "with-system", "multi-system", "alternating", "empty-message" }
    /\ call.out = Some(Restrictions(None, Some(0), None, None, Some(FALSE)))

\* C25: detect_chat_restrictions returns None only for a tokenizer without
\* apply_chat_template; with one, and no probe revealing a constraint, it
\* returns an empty mapping, which is not None.
C25_NoneOnlyWithoutRenderer ==
    CallIs("detect_chat_restrictions")
    => (IsNone(call.out) <=> ~call.tok.has_apply_chat_template)

\* C26: all eight patterns are rendered in catalogue order whatever subset of
\* them raises: each outcome is recorded for its own pattern, no exception
\* leaves the loop and the patterns after a raising one are still rendered.
C26_AllPatternsProbed ==
    (call.op = "detect_chat_restrictions" /\ call.tok.has_apply_chat_template)
    => /\ call.i = Len(call.test_results) + 1
       /\ Len(call.test_results) <= Len(Patterns)
       /\ \A k \in 1..Len(call.test_results) :
             call.test_results[k] = [name |-> Patterns[k], error |-> Raises(Patterns[k])]
       /\ call.done => Len(call.test_results) = Len(Patterns)

C26_Witness ==
    /\ DetectionDone
    /\ Raises("basic") /\ Raises("consecutive-user") /\ ~Raises("system-middle")
    /\ Len(call.test_results) = 8
    /\ call.test_results[1].error /\ ~call.test_results[8].error

InfoCall == call.op = "get_chat_template_info" /\ call.tok.has_apply_chat_template
Accepted(role) == role \notin call.rejected

\* The candidate roles among the first n that the renderer accepts, in order.
AcceptedAmong(n) == SelectSeq(SubSeq(TestRoles, 1, n), Accepted)

\* C27: supported_roles holds exactly the candidate roles whose one-message
\* render raises no error, in candidate order; a role whose probe raises is
\* left out and the roles after it are still probed.
C27_SupportedRoles ==
    InfoCall
    => /\ ~call.done
          => /\ call.i <= Len(TestRoles) + 1
             /\ call.supported_roles = AcceptedAmong(call.i - 1)
             /\ call.rendered = [k \in 1..(call.i - 1) |-> << TestRoles[k] >>]
       /\ call.done
          => /\ Val(call.out).supported_roles = AcceptedAmong(Len(TestRoles))
             /\ SubSeq(call.rendered, 1, Len(TestRoles))
                  = [k \in 1..Len(TestRoles) |-> << TestRoles[k] >>]

C27_Witness ==
    /\ InfoCall /\ call.done
    /\ call.rejected = { "system", "tool" }
    /\ Val(call.out).supported_roles = << "user", "assistant", "function" >>

\* C28: a preview is rendered if and only if at least one of system, user and
\* assistant is supported; the conversation rendered has one turn for each
\* supported role among the three, in that order; when the render raises,
\* preview holds an error text and the result is still returned.
C28_PreviewIffCoreRoleSupported ==
    (InfoCall /\ call.done)
    => LET core == AcceptedAmong(3)
           attempted == Len(call.rendered) > Len(TestRoles)
       IN /\ attempted <=> core # <<>>
          /\ attempted => call.rendered[Len(call.rendered)] = core
          /\ ~attempted => IsNone(Val(call.out).preview)
          /\ (attempted /\ call.preview_raises)
             => Val(call.out).preview = Some(<< "Preview error: ", "exception" >>)

\* C30: the options handed to the runtime are the caller's options, every key
\* with the caller's value, plus max_tokens = 1000 when the caller gave no
\* max_tokens, and nothing else.
C30_OptionsPassedThrough ==
    CallIs("generate_text")
    => /\ DOMAIN call.out = DOMAIN call.options \cup { "max_tokens" }
       /\ \A k \in DOMAIN call.options : call.out[k] = call.options[k]
       /\ "max_tokens" \notin DOMAIN call.options => call.out["max_tokens"] = 1000

C30_Witness ==
    /\ CallIs("generate_text")
    /\ DOMAIN call.options = { "max_tokens", "x_custom" }
    /\ call.options["max_tokens"] = 7
    /\ call.out["max_tokens"] = 7
    /\ call.out["x_custom"] = 0

\* What detect_chat_restrictions infers for a renderer that rejects exactly
\* the patterns in raising, None read as no key set.
InferredFor(raising) ==
    LET inferred == InferRestrictions(
                        [k \in 1..Len(Patterns) |->
                            TestResult(Patterns[k], Patterns[k] \in raising)])
    IN IF IsNone(inferred) THEN NoRestrictions ELSE Val(inferred)

\* C31: the constraints field of the chat template info holds the restrictions
\* constraint probing infers for the same tokenizer; when the renderer rejects
\* two system messages but accepts one, it holds max_system_messages = 1 and
\* single_system_at_start = true.
C31_ConstraintsAreInferred ==
    (InfoCall /\ call.done)
    => Val(call.out).constraints = InferredFor(call.raising)

\* C33: the complete response to a chat or completion request holds exactly
\* one NUL byte, its last byte, whatever the primer and the chunk texts.
C33_OneNulAtTheEnd ==
    (pc = "read" /\ status \in { "ok", "error" } /\ IsGenerationRequest(req))
    => LET bytes == Bytes(stdout)
       IN /\ bytes # <<>>
          /\ bytes[Len(bytes)] = NUL
          /\ \A i \in 1..(Len(bytes) - 1) : bytes[i] # NUL

\* C34: the loop stops only at end-of-input: no value that parses from the
\* input makes the loop end or the process crash.
C34_StopsOnlyAtEof ==
    /\ pc # "crashed"
    /\ pc = "exited" => eof

\* text is a prefix of whole; text ends with tail.
IsPrefix(text, whole) ==
    Len(text) <= Len(whole) /\ SubSeq(whole, 1, Len(text)) = text
EndsWith(text, tail) ==
    Len(tail) <= Len(text) /\ SubSeq(text, Len(text) - Len(tail) + 1, Len(text)) = tail

\* C35: for every render and every primer, also a primer that does not occur
\* in the render and the empty primer, the spliced prompt is a prefix of the
\* render and ends with the primer.
C35_SpliceOnlyTruncates ==
    CallIs("splice")
    => /\ call.out.ok
       /\ IsPrefix(call.out.value, call.rendered)
       /\ EndsWith(call.out.value, call.primer)

\* Generation is under way for a chat or completion request.
Generating == pc = "gen" /\ IsGenerationRequest(req)

\* The loop is back in read() and the last thing written for the request is
\* its one terminator.
TerminatedAndReading ==
    /\ pc = "read"
    /\ stdout # <<>>
    /\ stdout[Len(stdout)] = [ src |-> "term", body |-> << NL >>, end |-> << NUL >>,
                               req |-> nread ]
    /\ NulsFor(nread) = 1

\* Generation is left by an EOD chunk, by exhaustion of the sequence, or by an
\* exception caught in main.
EndsByEodExhaustionOrException ==
    (pc = "gen" /\ pc' # "gen")
    => /\ pc' = "read"
       /\ \/ gen' # gen /\ LastIsEod' /\ status' = "ok"
          \/ gen' = gen /\ status' \in { "ok", "error" }

\* C32: with a finite generation sequence, every chat or completion request
\* whose generation has started eventually has its terminator written and the
\* loop back in read(); generation ends only by an EOD chunk, by exhaustion or
\* by an exception caught in main.
C32_GenerationTerminates ==
    /\ [][EndsByEodExhaustionOrException]_vars
    /\ Generating ~> TerminatedAndReading

\* C32 witness: a generation of MaxChunks chunks without an EOD chunk has
\* ended by exhaustion, its terminator written, the loop back in read().
C32_Witness ==
    /\ TerminatedAndReading
    /\ IsGenerationRequest(req)
    /\ status = "ok"
    /\ Len(gen) = MaxChunks
    /\ ~LastIsEod

====
